---- MODULE Spec2Model ----
(***************************************************************************)
(* Job aggregation, deduplication and redundant-search suppression of      *)
(* UltimateJobHunter (src/job_hunter_ultimate.py).                          *)
(*                                                                         *)
(* Strings are sequences of tokens.  A token is a character or a chunk of  *)
(* characters that the string operations used here never split: " " is a   *)
(* whitespace character, "D"/"d" and "X.com"/"x.com" are an upper-case     *)
(* chunk and its lower-case form, "?utm=abc" is a tracking query.          *)
(***************************************************************************)
EXTENDS Integers, Sequences, FiniteSets, TLC

(***************************************************************************)
(* Bounds of the model.                                                    *)
(***************************************************************************)
\* longest list of jobs one provider call returns
MaxResp == 1
\* largest max_total tried besides the default
MaxTotalBound == 3

\* longest merged list of provider jobs one fetch_jobs_from_providers call sees
MaxFound == 2
\* the clock stops here; it counts thousandths of an hour
MaxClock == 167

\* longest list kept in processed_jobs.json
MaxFile == 2
\* the days stop here
MaxDay == 2
\* the short retention tried besides the default, in days
MaxAgeShort == 1

\* calls of mark_job_as_completed two threads begin between them
MaxMarks == 3

\* calls of fetch_jobs_from_providers two threads begin between them
MaxFetches == 3

\* longest list of approved entries an approval message carries
MaxApproved == 2

\* most jobs handed to one rank_jobs call, and their identifiers
MaxRank == 3

\* messages POSTed to one hand-off channel
MaxPosts == 2

\* def clean_expired_jobs(self, max_age_days=30)
DefaultMaxAgeDays == 30
\* def fetch_jobs_with_mapped_params(..., max_total: int = 15, ...)
DefaultMaxTotal == 15
\* prevent_redundant_search(..., timeout_hours=0.167), in thousandths of an hour
TimeoutMilliHours == 167

(***************************************************************************)
(* Python string operations on token sequences.                            *)
(***************************************************************************)
\* str.lower() on one token
LowerTok(c) ==
  CASE c = "D" -> "d"
    [] c = "A" -> "a"
    [] c = "X.com" -> "x.com"
    [] c = "HTTPS://" -> "https://"
    [] OTHER -> c

\* str.lower()
ToLower(s) == [i \in DOMAIN s |-> LowerTok(s[i])]

RECURSIVE LStrip(_)
LStrip(s) ==
  IF s = <<>> THEN s
  ELSE IF Head(s) = " " THEN LStrip(Tail(s)) ELSE s

RECURSIVE RStrip(_)
RStrip(s) ==
  IF s = <<>> THEN s
  ELSE IF s[Len(s)] = " " THEN RStrip(SubSeq(s, 1, Len(s) - 1)) ELSE s

\* str.strip()
Strip(s) == RStrip(LStrip(s))

(***************************************************************************)
(* _remove_duplicate_jobs: one pass, two seen-sets.                        *)
(***************************************************************************)
\* job.get('url', '').strip().lower()
JobUrlKey(job) == ToLower(Strip(job.url))

\* f"{job_title}_{company}" of the stripped, lower-cased title and company
TitleCompanyKey(job) ==
  ToLower(Strip(job.title)) \o <<"_">> \o ToLower(Strip(job.company))

RECURSIVE RemoveDupLoop(_, _, _, _)
RemoveDupLoop(jobs, seen_urls, seen_titles, unique_jobs) ==
  IF jobs = <<>> THEN unique_jobs
  ELSE
    LET job == Head(jobs)
        job_url == JobUrlKey(job)
        title_company_key == TitleCompanyKey(job)
    IN  IF job_url # <<>> /\ job_url \in seen_urls
          THEN RemoveDupLoop(Tail(jobs), seen_urls, seen_titles, unique_jobs)
        ELSE IF title_company_key # <<>> /\ title_company_key \in seen_titles
          THEN RemoveDupLoop(Tail(jobs), seen_urls, seen_titles, unique_jobs)
        ELSE RemoveDupLoop(
               Tail(jobs),
               IF job_url # <<>> THEN seen_urls \cup {job_url} ELSE seen_urls,
               IF title_company_key # <<>>
                 THEN seen_titles \cup {title_company_key} ELSE seen_titles,
               Append(unique_jobs, job))

RemoveDuplicateJobs(jobs) == RemoveDupLoop(jobs, {}, {}, <<>>)

\* the slice that cuts nothing off
PrefixAll(s, n) == s

\* unique_jobs[:max_total]
Prefix(s, n) == SubSeq(s, 1, IF n < Len(s) THEN n ELSE Len(s))

(***************************************************************************)
(* Normalizer (job_utils): canonical forms and the canonical identifier.   *)
(***************************************************************************)
IgnoredTokens == {"(m/w/d)", "!"}
TrackingTokens == {"?utm=abc"}
SchemeTokens == {"https://", "HTTPS://"}

KeepToken(c) == c \notin IgnoredTokens
NotTracking(c) == c \notin TrackingTokens

RECURSIVE CollapseSpaces(_)
CollapseSpaces(s) ==
  IF Len(s) < 2 THEN s
  ELSE IF s[1] = " " /\ s[2] = " " THEN CollapseSpaces(Tail(s))
  ELSE <<s[1]>> \o CollapseSpaces(Tail(s))

\* lower-case, gender markers and punctuation dropped, whitespace collapsed
NormalizeText(s) == Strip(CollapseSpaces(ToLower(SelectSeq(s, KeepToken))))

IsUrl(raw) == Strip(raw) # <<>> /\ Head(Strip(raw)) \in SchemeTokens

RECURSIVE DropTrailingSlashes(_)
DropTrailingSlashes(s) ==
  IF s # <<>> /\ s[Len(s)] = "/"
    THEN DropTrailingSlashes(SubSeq(s, 1, Len(s) - 1)) ELSE s

\* scheme and host (the first two tokens of a URL) in lower case
LowerSchemeHost(s) == [i \in DOMAIN s |-> IF i <= 2 THEN LowerTok(s[i]) ELSE s[i]]

NormalizeUrl(raw) ==
  IF IsUrl(raw)
    THEN DropTrailingSlashes(LowerSchemeHost(SelectSeq(Strip(raw), NotTracking)))
    ELSE ToLower(Strip(raw))

\* the hash of a text, as the text under a tag no URL starts with
HashOf(text) == <<"#">> \o text

ComputeIdentifier(job) ==
  IF job.url # <<>> /\ IsUrl(job.url)
    THEN NormalizeUrl(job.url)
    ELSE HashOf(NormalizeText(job.title) \o <<"|">> \o NormalizeText(job.company))

(***************************************************************************)
(* ProfileJobCache (profile_job_cache): per profile, the identifiers       *)
(* already processed and the time of the last search per query key.        *)
(***************************************************************************)
\* dict[key] = value
DictSet(dict, key, value) ==
  [k \in DOMAIN dict \cup {key} |-> IF k = key THEN value ELSE dict[k]]

QueryKey(keywords, location) == <<NormalizeText(keywords), NormalizeText(location)>>

\* a search of this profile and query key was recorded less than window ago
PreventRedundantSearch(last_search, keywords, location, profile_name, window, now) ==
  LET key == QueryKey(keywords, location)
  IN  /\ key \in DOMAIN last_search[profile_name]
      /\ now - last_search[profile_name][key] < window

GetProcessedJobs(processed, profile_name) == processed[profile_name]

AddProcessedJob(processed, job, profile_name) ==
  [processed EXCEPT ![profile_name] = @ \cup {ComputeIdentifier(job)}]

UpdateLastSearch(last_search, profile_name, key, now) ==
  [last_search EXCEPT ![profile_name] = DictSet(@, key, now)]

(***************************************************************************)
(* JobSearchManager.fetch_jobs_from_providers (job_search_manager): the    *)
(* providers' jobs merged in enumeration order; a job is dropped when its  *)
(* identifier was met earlier in the pass or is in processed_jobs.         *)
(***************************************************************************)
RECURSIVE MergeLoop(_, _, _)
MergeLoop(jobs, seen, kept) ==
  IF jobs = <<>> THEN kept
  ELSE LET id == ComputeIdentifier(Head(jobs))
       IN  IF id \in seen
             THEN MergeLoop(Tail(jobs), seen, kept)
             ELSE MergeLoop(Tail(jobs), seen \cup {id}, Append(kept, Head(jobs)))

ManagerFetch(found, processed_jobs, max_total) ==
  Prefix(MergeLoop(found, processed_jobs, <<>>), max_total)

(***************************************************************************)
(* Inputs: the jobs a provider may return, the providers lists and the     *)
(* max_total values a caller may pass.                                     *)
(***************************************************************************)
Url1 == <<"https://", "x.com", "/j/1">>
Url1Tracked == <<"https://", "x.com", "/j/1", "?utm=abc">>
Url2 == <<"https://", "x.com", "/j/2">>
NoUrl == <<>>

TitleAnalyst == <<"d", " ", "a">>
TitleAnalystInner == <<"D", " ", " ", "a">>
TitleAnalystOuter == <<" ", "D", " ", "a", " ">>
TitleOther == <<"x">>

Job(u, t, c) == [url |-> u, title |-> t, company |-> c]

JobPool ==
  { Job(Url1, TitleAnalyst, <<"a">>),
    Job(Url1Tracked, TitleOther, <<"a">>),
    Job(Url2, TitleAnalyst, <<"a">>),
    Job(NoUrl, TitleOther, <<"a">>),
    Job(NoUrl, TitleAnalystInner, <<"A">>),
    Job(NoUrl, TitleAnalystOuter, <<"A", " ">>) }

SeqsUpTo(S, n) == UNION {[1..k -> S] : k \in 0..n}

\* what one provider search may return
Responses == SeqsUpTo(JobPool, MaxResp)

KnownProviders == {"adzuna", "jsearch", "stepstone"}

ProviderLists ==
  { <<"adzuna">>,
    <<"adzuna", "jsearch">>,
    <<"stepstone", "other", "jsearch">> }

MaxTotals == (0..MaxTotalBound) \cup {DefaultMaxTotal}

VARIABLES
  m_pc,          \* position in fetch_jobs_with_mapped_params
  m_providers,   \* its providers argument
  m_max_total,   \* its max_total argument
  m_idx,         \* index of the provider the for loop is at
  m_limit,       \* max_jobs passed to the provider call in flight
  m_all_jobs,    \* all_jobs
  m_mapping,     \* mapping_results
  m_unique,      \* unique_jobs
  m_result,      \* the returned dictionary
  m_failed,      \* providers whose search raised during this call
  m_valid        \* validation_result.is_valid of this call

mvars == <<m_pc, m_providers, m_max_total, m_idx, m_limit, m_all_jobs,
           m_mapping, m_unique, m_result, m_failed, m_valid>>

VARIABLES
  clock,               \* datetime.now(), in thousandths of an hour
  c_processed,         \* profile_job_cache: identifiers processed, per profile
  c_last_search,       \* profile_job_cache: last search time per profile and key
  jsm_processed_jobs,  \* job_search_manager.processed_jobs
  f_called,            \* fetch_jobs_from_providers has been called
  f_profile,           \* profile_name of the latest call
  f_query,             \* <<keywords, location>> of the latest call
  f_invoked,           \* the latest call invoked the providers
  f_offered,           \* identifiers of the jobs the providers returned to it
  f_printed,           \* the line it printed
  f_result,            \* the list it returned
  f_cache_down,        \* the cache store was unavailable during the latest call
  f_raised,            \* the latest call ended with an exception
  h_returned,          \* per profile, identifiers returned by earlier calls
  h_runs,              \* per profile and query, time of the last real search
  h_outcomes           \* per kind of call, the outcomes its caller has seen

fvars == <<clock, c_processed, c_last_search, jsm_processed_jobs, f_called,
           f_profile, f_query, f_invoked, f_offered, f_printed, f_result,
           f_cache_down, f_raised, h_returned, h_runs, h_outcomes>>

VARIABLES
  l_started,         \* UltimateJobHunter has been constructed
  l_today,           \* datetime.now(), in days
  l_file,            \* the list stored in processed_jobs.json
  l_processed_jobs,  \* self.processed_jobs
  l_outcome          \* the latest call on the legacy cache and what it returned

lvars == <<l_started, l_today, l_file, l_processed_jobs, l_outcome>>

VARIABLES
  k_pc,         \* per thread: its position in mark_job_as_completed
  k_job,        \* per thread: the job_id it was called with
  k_existing,   \* per thread: its local existing_data
  k_calls,      \* calls of mark_job_as_completed begun
  k_recorded    \* job ids whose call returned True

kvars == <<k_pc, k_job, k_existing, k_calls, k_recorded>>

VARIABLES
  q_pc,         \* per thread: its position in fetch_jobs_from_providers
  q_args,       \* per thread: the arguments of prevent_redundant_search
  q_found,      \* per thread: what the providers hold for its search
  q_all_jobs,   \* per thread: its local all_jobs
  q_calls       \* calls of fetch_jobs_from_providers begun

qvars == <<q_pc, q_args, q_found, q_all_jobs, q_calls>>

VARIABLES
  cancel_event,       \* self.cancel_event is set
  w_pc,               \* position in hunt_interactive
  w_pending,          \* provider calls of the fetch still in flight
  w_collected,        \* per provider: the jobs of its completed call
  w_all_jobs,         \* all_jobs
  w_ranked,           \* the ids of ranked_jobs, in order
  w_applications,     \* the job ids of applications
  w_approval,         \* what wait_for_application_approval returned
  w_queue,            \* the entries of approved_jobs still to finalize
  w_files,            \* job ids whose application files are written
  w_completed,        \* job ids mark_job_as_completed returned True for
  w_finalized_count,  \* finalized_count
  w_result            \* the final_results event or the value returned

hvars == <<cancel_event, w_pc, w_pending, w_collected, w_all_jobs, w_ranked,
           w_applications, w_approval, w_queue, w_files, w_completed,
           w_finalized_count, w_result>>

VARIABLES
  r_jobs,        \* the jobs handed to rank_jobs
  r_weights,     \* the weights handed to rank_jobs
  r_ranked,      \* what rank_jobs returned
  r_reordered,   \* the same jobs in another order
  r_reranked,    \* what rank_jobs returned for them
  r_calls        \* calls of rank_jobs made

rvars == <<r_jobs, r_weights, r_ranked, r_reordered, r_reranked, r_calls>>

VARIABLES
  a_data,        \* draft_api: the global job_selection_data, 0 for None
  a_pc,          \* per GET handler thread: its position
  a_local,       \* per GET handler thread: its local data
  a_posts,       \* messages POSTed so far
  a_returns      \* per message: the GETs that returned it

avars == <<a_data, a_pc, a_local, a_posts, a_returns>>

wvars == <<kvars, qvars, hvars, rvars, avars>>

vars == <<mvars, fvars, lvars, wvars>>

NoResult == [success |-> FALSE, jobs |-> <<>>, pending |-> TRUE]

MappedInit ==
  /\ m_pc = "idle"
  /\ m_providers = <<>>
  /\ m_max_total = 0
  /\ m_idx = 1
  /\ m_limit = 0
  /\ m_all_jobs = <<>>
  /\ m_mapping = <<>>
  /\ m_unique = <<>>
  /\ m_result = NoResult
  /\ m_failed = {}
  /\ m_valid = TRUE

\* max_total // len(providers)
ProviderLimit(max_total, n) == max_total \div n

\* job['provider'] = provider, for every job of provider_jobs
Stamp(jobs, provider) ==
  [i \in DOMAIN jobs |->
     [url |-> jobs[i].url, title |-> jobs[i].title,
      company |-> jobs[i].company, provider |-> provider]]

\* the validation that lets every profile through
AfterValidationIgnored(valid) == "loop"

\* if not validation_result.is_valid: return; else on to the providers
AfterValidation(valid) == IF valid THEN "loop" ELSE "done"

\* validate_profile; not valid: the failure dictionary, before any provider
MappedBegin(valid, max_total, providers) ==
  /\ m_pc \in {"idle", "done"}
  /\ m_providers' = providers
  /\ m_max_total' = max_total
  /\ m_idx' = 1
  /\ m_limit' = 0
  /\ m_all_jobs' = <<>>
  /\ m_mapping' = <<>>
  /\ m_unique' = <<>>
  /\ m_failed' = {}
  /\ m_valid' = valid
  /\ UNCHANGED <<fvars, lvars, wvars>>
  /\ m_pc' = AfterValidation(valid)
  /\ IF valid
       THEN m_result' = NoResult
       ELSE m_result' = [success |-> FALSE, jobs |-> <<>>,
                            validation |-> "invalid"]

\* map_profile_to_provider raised: the except clause of the loop body
ProviderMapError ==
  /\ m_pc = "loop"
  /\ m_idx <= Len(m_providers)
  /\ m_mapping' = DictSet(m_mapping, m_providers[m_idx],
                    [success |-> FALSE, error |-> "mapping", jobs_found |-> 0])
  /\ m_idx' = m_idx + 1
  /\ UNCHANGED <<m_pc, m_providers, m_max_total, m_limit, m_all_jobs,
                 m_unique, m_result, m_failed>>
  /\ UNCHANGED <<m_valid, fvars, lvars, wvars>>

\* a provider that is none of adzuna, jsearch, stepstone: continue
ProviderSkip ==
  /\ m_pc = "loop"
  /\ m_idx <= Len(m_providers)
  /\ m_providers[m_idx] \notin KnownProviders
  /\ m_mapping' = DictSet(m_mapping, m_providers[m_idx], [success |-> TRUE])
  /\ m_idx' = m_idx + 1
  /\ UNCHANGED <<m_pc, m_providers, m_max_total, m_limit, m_all_jobs,
                 m_unique, m_result, m_failed>>
  /\ UNCHANGED <<m_valid, fvars, lvars, wvars>>

\* the loop is at provider i: the call of _fetch_<provider>_with_mapped_params
\* starts
ProviderStartAt(i) ==
  /\ m_pc = "loop"
  /\ i = m_idx
  /\ m_idx <= Len(m_providers)
  /\ m_providers[m_idx] \in KnownProviders
  /\ m_mapping' = DictSet(m_mapping, m_providers[m_idx], [success |-> TRUE])
  /\ m_limit' = ProviderLimit(m_max_total, Len(m_providers))
  /\ m_pc' = "calling"
  /\ UNCHANGED <<m_providers, m_max_total, m_idx, m_all_jobs, m_unique,
                 m_result, m_failed>>
  /\ UNCHANGED <<m_valid, fvars, lvars, wvars>>

\* _fetch_<provider>_with_mapped_params: an exception of the search is caught
\* there and an empty list returned
FetchWithMappedParams(raised, found) == IF raised THEN <<>> ELSE found

\* the provider call returns; its jobs are stamped and appended
ProviderReturn(raised, found) ==
  /\ m_pc = "calling"
  /\ LET provider == m_providers[m_idx]
         provider_jobs == Stamp(FetchWithMappedParams(raised, found), provider)
     IN  /\ m_all_jobs' = m_all_jobs \o provider_jobs
         /\ m_mapping' = DictSet(m_mapping, provider,
                           [success |-> TRUE, jobs_found |-> Len(provider_jobs)])
         /\ m_failed' = IF raised THEN m_failed \cup {provider} ELSE m_failed
  /\ m_idx' = m_idx + 1
  /\ m_pc' = "loop"
  /\ UNCHANGED <<m_providers, m_max_total, m_limit, m_unique, m_result>>
  /\ UNCHANGED <<m_valid, fvars, lvars, wvars>>

\* after the loop: _remove_duplicate_jobs and the success dictionary
MappedFinish ==
  /\ m_pc = "loop"
  /\ m_idx > Len(m_providers)
  /\ m_unique' = RemoveDuplicateJobs(m_all_jobs)
  /\ m_result' = [success |-> TRUE,
                  jobs |-> Prefix(m_unique', m_max_total),
                  total_found |-> Len(m_unique'),
                  mapping_results |-> m_mapping]
  /\ m_pc' = "done"
  /\ UNCHANGED <<m_providers, m_max_total, m_idx, m_limit, m_all_jobs,
                 m_mapping, m_failed>>
  /\ UNCHANGED <<m_valid, fvars, lvars, wvars>>

MappedNext ==
  \/ \E valid \in BOOLEAN, max_total \in MaxTotals, providers \in ProviderLists :
       MappedBegin(valid, max_total, providers)
  \/ ProviderMapError
  \/ ProviderSkip
  \/ \E i \in DOMAIN m_providers : ProviderStartAt(i)
  \/ \E found \in Responses : ProviderReturn(FALSE, found)
  \/ ProviderReturn(TRUE, <<>>)
  \/ MappedFinish

(***************************************************************************)
(* fetch_jobs_from_providers and its caller hunt_interactive.              *)
(***************************************************************************)
Profiles == {"P", "Q"}

NoneValue == <<"<None>">>

KeywordsData == <<"d">>
KeywordsDataVariant == <<"D", " ">>
KeywordsOther == <<"x">>

FetchPool ==
  { Job(Url1, TitleAnalyst, <<"a">>),
    Job(Url1Tracked, TitleOther, <<"a">>),
    Job(NoUrl, TitleAnalystInner, <<"A">>) }

FoundLists == SeqsUpTo(FetchPool, MaxFound)

FetchInit ==
  /\ clock = 0
  /\ c_processed = [p \in Profiles |-> {}]
  /\ c_last_search = [p \in Profiles |-> <<>>]
  /\ jsm_processed_jobs = {}
  /\ f_called = FALSE
  /\ f_profile = "P"
  /\ f_query = <<KeywordsData, NoneValue>>
  /\ f_invoked = FALSE
  /\ f_offered = {}
  /\ f_printed = ""
  /\ f_result = <<>>
  /\ f_cache_down = FALSE
  /\ f_raised = FALSE
  /\ h_returned = [p \in Profiles |-> {}]
  /\ h_runs = [p \in Profiles |-> <<>>]
  /\ h_outcomes = [suppressed |-> {}, empty |-> {}]

\* location or ""
OrEmpty(value) == IF value = NoneValue THEN <<>> ELSE value

\* the call that passes no location to prevent_redundant_search
SuppressionArgsNoLocation(keywords, location, profile_name) ==
  [keywords |-> keywords, location |-> <<>>, profile_name |-> profile_name]

\* the arguments of prevent_redundant_search: keywords, location or "", profile_name
SuppressionArgs(keywords, location, profile_name) ==
  [keywords |-> keywords, location |-> OrEmpty(location), profile_name |-> profile_name]

\* job['first_seen'] = datetime.now().isoformat(), for every job of all_jobs
StampFirstSeen(jobs, now) ==
  [i \in DOMAIN jobs |->
     [url |-> jobs[i].url, title |-> jobs[i].title,
      company |-> jobs[i].company, first_seen |-> now]]

\* get_jobs_since_last_search: the entries of the profile recorded since its
\* last search, which are none or some of the entries recorded for it
JobsSinceLastSearchChoices(processed, profile_name) ==
  {{}, GetProcessedJobs(processed, profile_name)}

\* {job.get('job_id', job.get('url', '')) for job in new_jobs_since_last_search}
NewJobIds(new_jobs_since_last_search) == new_jobs_since_last_search

\* job.get('id', job.get('url', '')), of a provider job that carries no id
JobIdOrUrl(job) == job.url

\* job['is_new_since_last_search'] = job_id in new_job_ids, for every job
StampIsNew(jobs, new_job_ids) ==
  [i \in DOMAIN jobs |->
     [url |-> jobs[i].url, title |-> jobs[i].title,
      company |-> jobs[i].company, first_seen |-> jobs[i].first_seen,
      is_new_since_last_search |-> JobIdOrUrl(jobs[i]) \in new_job_ids]]

\* the loop that forgets to add the jobs to the profile cache
RecordReturnedNothing(processed, jobs, profile_name) == processed

\* for job in all_jobs: self.profile_job_cache.add_processed_job(job, profile_name)
RECURSIVE RecordReturned(_, _, _)
RecordReturned(processed, jobs, profile_name) ==
  IF jobs = <<>> THEN processed
  ELSE RecordReturned(AddProcessedJob(processed, Head(jobs), profile_name),
                      Tail(jobs), profile_name)

\* the call that leaves the time of the last search as it was
RecordSearchSkipped(last_search, args, now) == last_search

\* self.profile_job_cache.update_last_search(profile_name), at the end of the
\* call that asked prevent_redundant_search about args
RecordSearch(last_search, args, now) ==
  UpdateLastSearch(last_search, args.profile_name,
                   QueryKey(args.keywords, args.location), now)

\* rank_jobs: no jobs, no ranking
RankJobsOfNone(jobs) == IF jobs = <<>> THEN <<>> ELSE jobs

\* what hunt_interactive makes of the list fetch_jobs_from_providers returned
HuntOutcome(all_jobs) ==
  IF Len(RankJobsOfNone(all_jobs)) = 0
    THEN [returned |-> all_jobs, event |-> "final_results", status |-> "no_jobs",
          total_found |-> Len(all_jobs)]
    ELSE [returned |-> all_jobs, event |-> "user_selection_required",
          status |-> "", total_found |-> Len(all_jobs)]

IdsOf(jobs) == {ComputeIdentifier(jobs[i]) : i \in DOMAIN jobs}

FetchJobsFromProviders(keywords, location, profile_name, max_total, found) ==
  LET args == SuppressionArgs(keywords, location, profile_name)
      redundant == PreventRedundantSearch(c_last_search, args.keywords,
                     args.location, args.profile_name, TimeoutMilliHours, clock)
      profile_processed_jobs == GetProcessedJobs(c_processed, profile_name)
      all_jobs == ManagerFetch(found, profile_processed_jobs, max_total)
      stamped == StampFirstSeen(all_jobs, clock)
  IN  /\ f_called' = TRUE
      /\ f_profile' = profile_name
      /\ f_query' = <<keywords, location>>
      /\ h_returned' = [h_returned EXCEPT ![f_profile] = @ \cup IdsOf(f_result)]
      /\ IF redundant
           THEN /\ f_printed' = "Redundante Suche verhindert"
                /\ f_result' = <<>>
                /\ f_invoked' = FALSE
                /\ f_offered' = {}
                /\ h_outcomes' = [h_outcomes EXCEPT
                                    !.suppressed = @ \cup {HuntOutcome(<<>>)}]
                /\ UNCHANGED <<c_processed, c_last_search, jsm_processed_jobs, h_runs>>
           ELSE /\ jsm_processed_jobs' = profile_processed_jobs
                /\ f_invoked' = TRUE
                /\ f_offered' = IdsOf(found)
                /\ f_printed' = "Location parsed"
                /\ c_processed' = RecordReturned(c_processed, stamped, profile_name)
                /\ c_last_search' = RecordSearch(c_last_search, args, clock)
                /\ \E since \in JobsSinceLastSearchChoices(c_processed, profile_name) :
                     f_result' = StampIsNew(stamped, NewJobIds(since))
                /\ h_runs' = [h_runs EXCEPT ![profile_name] =
                                DictSet(@, <<keywords, location>>, clock)]
                /\ h_outcomes' = IF stamped = <<>>
                                   THEN [h_outcomes EXCEPT
                                           !.empty = @ \cup {HuntOutcome(stamped)}]
                                   ELSE h_outcomes
      /\ f_cache_down' = FALSE
      /\ f_raised' = FALSE
      /\ UNCHANGED <<clock, mvars, lvars, wvars>>

\* what hunt_interactive emits when fetch_jobs_from_providers raised
HuntOutcomeRaised ==
  [returned |-> <<>>, event |-> "final_results", status |-> "error",
   total_found |-> 0]

\* fetch_jobs_from_providers while every read and write of the cache store
\* fails: prevent_redundant_search raises, nothing in the function catches it
FetchJobsFromProvidersCacheDown(keywords, location, profile_name, max_total, found) ==
  /\ f_called' = TRUE
  /\ f_profile' = profile_name
  /\ f_query' = <<keywords, location>>
  /\ h_returned' = [h_returned EXCEPT ![f_profile] = @ \cup IdsOf(f_result)]
  /\ f_cache_down' = TRUE
  /\ f_raised' = TRUE
  /\ f_invoked' = FALSE
  /\ f_offered' = {}
  /\ f_printed' = ""
  /\ f_result' = <<>>
  /\ UNCHANGED <<clock, c_processed, c_last_search, jsm_processed_jobs, h_runs,
                 h_outcomes, mvars, lvars, wvars>>

\* time passes between calls
Advance(d) ==
  /\ clock + d <= MaxClock
  /\ clock' = clock + d
  /\ UNCHANGED <<c_processed, c_last_search, jsm_processed_jobs, f_called,
                 f_profile, f_query, f_invoked, f_offered, f_printed,
                 f_result, f_cache_down, f_raised, h_returned, h_runs,
                 h_outcomes, mvars, lvars, wvars>>

\* the <<profile_name, keywords, location>> of the calls around the window
WindowCalls ==
  { <<"P", KeywordsData, NoneValue>>,
    <<"P", KeywordsDataVariant, <<>>>>,
    <<"P", KeywordsOther, NoneValue>>,
    <<"P", KeywordsData, <<"a">>>>,
    <<"Q", KeywordsData, NoneValue>> }

\* searches of two profiles over two queries
FetchNext ==
  \E q \in {<<KeywordsData, NoneValue>>, <<KeywordsOther, NoneValue>>},
        p \in Profiles, max_total \in {1, DefaultMaxTotal}, found \in FoundLists :
       FetchJobsFromProviders(q[1], q[2], p, max_total, found)

\* searches around the end of the suppression window
SuppressNext ==
  \/ \E c \in WindowCalls, found \in {<<>>, <<Job(Url1, TitleAnalyst, <<"a">>)>>} :
       FetchJobsFromProviders(c[2], c[3], c[1], DefaultMaxTotal, found)
  \/ \E d \in {TimeoutMilliHours - 1, TimeoutMilliHours} : Advance(d)

(***************************************************************************)
(* The legacy cache: processed_jobs.json and self.processed_jobs, with     *)
(* load_processed_jobs, mark_job_as_completed, reset_job_cache and         *)
(* clean_expired_jobs.  Time is counted in days.                           *)
(***************************************************************************)
\* an entry of the stored list: a dictionary, or a bare URL of the old format
IsoDate(day) == [tag |-> "iso", day |-> day]
InvalidDate == [tag |-> "invalid", day |-> 0]
NoDate == [tag |-> "none", day |-> 0]

DictEntry(job_id, date_added) ==
  [kind |-> "dict", job_id |-> job_id, url |-> job_id, date_added |-> date_added]

OldEntry(url) ==
  [kind |-> "old", job_id |-> url, url |-> url, date_added |-> NoDate]

\* a job id that is no URL
NonUrlId == <<"job-7">>

\* job_id.startswith('http')
StartsWithHttp(job_id) == job_id # <<>> /\ job_id[1] = "https://"

\* new_entry: its 'url' is the job_id when that starts with http, else None
NewEntry(job_id, date_added) ==
  [kind |-> "dict", job_id |-> job_id,
   url |-> IF StartsWithHttp(job_id) THEN job_id ELSE NoneValue,
   date_added |-> date_added]

\* the job ids a caller marks
JobIds == {Url1, Url1Tracked, Url2, NonUrlId}

\* what processed_jobs.json holds when the program is started first
InitialFiles ==
  { <<>>,
    <<OldEntry(Url1)>>,
    <<OldEntry(Url1), OldEntry(Url2)>>,
    <<DictEntry(Url1, InvalidDate)>>,
    <<DictEntry(Url2, NoDate), DictEntry(Url1, IsoDate(0))>> }

MaxAgeDaysValues == {MaxAgeShort, DefaultMaxAgeDays}

NoOutcome ==
  [op |-> "none", job_id |-> <<>>, user_approved |-> FALSE, max_age_days |-> 0,
   io_failed |-> FALSE, returned |-> 0, reported_error |-> FALSE]

LegacyInit ==
  /\ l_started = FALSE
  /\ l_today = 0
  /\ l_file = <<>>
  /\ l_processed_jobs = {}
  /\ l_outcome = NoOutcome

\* {self.normalize_job_url(job.get('url', job.get('job_id', ''))) for job in data}
\* or, for the old format, {self.normalize_job_url(url) for url in data}.  An
\* entry whose 'url' is None hands None to normalize_job_url: the key is there,
\* so the default is not taken.  When normalize_job_url raises on it the load
\* ends like a failed read.
LoadedSet(data) == {NormalizeUrl(data[i].url) : i \in DOMAIN data}

\* load_processed_jobs, called by __init__: the set of the stored list, or the
\* empty set when reading the file raised
LoadProcessedJobs(data, read_fails) ==
  /\ data \in (IF l_started THEN {l_file} ELSE InitialFiles)
  /\ l_started' = TRUE
  /\ l_file' = data
  /\ l_processed_jobs' = IF read_fails THEN {} ELSE LoadedSet(data)
  /\ l_outcome' = [NoOutcome EXCEPT !.op = "load", !.io_failed = read_fails,
                                    !.returned = Cardinality(l_processed_jobs')]
  /\ UNCHANGED <<l_today, mvars, fvars, wvars>>

\* a list of the old format made a list of dictionaries dated now
ConvertOldFormat(existing_data, now) ==
  IF existing_data # <<>> /\ existing_data[1].kind # "dict"
    THEN [i \in DOMAIN existing_data |->
            DictEntry(existing_data[i].url, IsoDate(now))]
    ELSE existing_data

\* any(job.get('job_id') == job_id or job.get('url') == job_id for job in existing_data)
JobExists(existing_data, job_id) ==
  \E i \in DOMAIN existing_data :
    existing_data[i].job_id = job_id \/ existing_data[i].url = job_id

\* the list mark_job_as_completed writes back
MarkedData(existing_data, job_id, now) ==
  LET converted == ConvertOldFormat(existing_data, now)
  IN  IF JobExists(converted, job_id)
        THEN converted
        ELSE Append(converted, NewEntry(job_id, IsoDate(now)))

\* the test that lets every call through
PassesApprovalAlways(user_approved) == TRUE

\* if not user_approved: return False
PassesApproval(user_approved) == user_approved

\* mark_job_as_completed(job_id, user_approved)
MarkJobAsCompleted(job_id, user_approved, io_fails) ==
  /\ l_started
  /\ Len(l_file) < MaxFile
  /\ l_outcome' = [NoOutcome EXCEPT !.op = "mark", !.job_id = job_id,
                     !.user_approved = user_approved,
                     !.io_failed = PassesApproval(user_approved) /\ io_fails,
                     !.returned = IF PassesApproval(user_approved) /\ ~io_fails
                                    THEN 1 ELSE 0,
                     !.reported_error = PassesApproval(user_approved) /\ io_fails]
  /\ IF ~PassesApproval(user_approved)
       THEN UNCHANGED <<l_file, l_processed_jobs>>
       ELSE /\ l_processed_jobs' = l_processed_jobs \cup {NormalizeUrl(job_id)}
            /\ l_file' = IF io_fails THEN l_file
                         ELSE MarkedData(l_file, job_id, l_today)
  /\ UNCHANGED <<l_started, l_today, mvars, fvars, wvars>>

\* reset_job_cache(): no profile is named; the backup or the write may raise
ResetJobCache(fail_at) ==
  /\ l_started
  /\ l_processed_jobs' = IF fail_at = "backup" THEN l_processed_jobs ELSE {}
  /\ l_file' = IF fail_at = "none" THEN <<>> ELSE l_file
  /\ l_outcome' = [NoOutcome EXCEPT !.op = "reset", !.io_failed = fail_at # "none",
                     !.returned = IF fail_at = "none" THEN 1 ELSE 0,
                     !.reported_error = fail_at # "none"]
  /\ UNCHANGED <<l_started, l_today, mvars, fvars, wvars>>

\* if job_date > cutoff_date: keep; entries without a date that parses are kept
KeptByClean(item, cutoff_date) ==
  IF item.kind = "dict" /\ item.date_added.tag # "none"
    THEN IF item.date_added.tag = "iso"
           THEN item.date_added.day > cutoff_date
           ELSE TRUE
    ELSE TRUE

\* filtered_data
FilteredData(data, cutoff_date) ==
  LET Keep(item) == KeptByClean(item, cutoff_date) IN SelectSeq(data, Keep)

\* the in-memory set after cleaning: of the dictionaries only
CleanedSet(filtered_data) ==
  {NormalizeUrl(filtered_data[i].url) :
     i \in {k \in DOMAIN filtered_data : filtered_data[k].kind = "dict"}}

\* clean_expired_jobs(max_age_days)
CleanExpiredJobs(max_age_days, io_fails) ==
  /\ l_started
  /\ LET cutoff_date == l_today - max_age_days
         filtered_data == FilteredData(l_file, cutoff_date)
     IN  IF io_fails
           THEN /\ UNCHANGED <<l_file, l_processed_jobs>>
                /\ l_outcome' = [NoOutcome EXCEPT !.op = "clean",
                                   !.max_age_days = max_age_days, !.io_failed = TRUE]
           ELSE /\ l_file' = filtered_data
                /\ l_processed_jobs' = CleanedSet(filtered_data)
                /\ l_outcome' = [NoOutcome EXCEPT !.op = "clean",
                                   !.max_age_days = max_age_days,
                                   !.returned = Len(l_file) - Len(filtered_data)]
  /\ UNCHANGED <<l_started, l_today, mvars, fvars, wvars>>

\* a day passes
DayPasses ==
  /\ l_today < MaxDay
  /\ l_today' = l_today + 1
  /\ UNCHANGED <<l_started, l_file, l_processed_jobs, l_outcome, mvars, fvars, wvars>>

\* the set a search consults, whatever the profile it is made for:
\* self.job_search_manager.processed_jobs = self.processed_jobs
IsProcessed(profile_name, id) == id \in l_processed_jobs

\* the legacy cache while every read and write of the file succeeds
LegacyReliableNext ==
  \/ \E data \in InitialFiles \cup {l_file} : LoadProcessedJobs(data, FALSE)
  \/ \E job_id \in JobIds, user_approved \in BOOLEAN :
       MarkJobAsCompleted(job_id, user_approved, FALSE)
  \/ ResetJobCache("none")
  \/ \E max_age_days \in MaxAgeDaysValues : CleanExpiredJobs(max_age_days, FALSE)
  \/ DayPasses

LegacyNext ==
  \/ \E data \in InitialFiles \cup {l_file}, read_fails \in BOOLEAN :
       LoadProcessedJobs(data, read_fails)
  \/ \E job_id \in JobIds, user_approved \in BOOLEAN, io_fails \in BOOLEAN :
       MarkJobAsCompleted(job_id, user_approved, io_fails)
  \/ \E fail_at \in {"none", "backup", "write"} : ResetJobCache(fail_at)
  \/ \E max_age_days \in MaxAgeDaysValues, io_fails \in BOOLEAN :
       CleanExpiredJobs(max_age_days, io_fails)
  \/ DayPasses

\* searches while the cache store is up and while it is down
CacheDownNext ==
  \/ \E c \in WindowCalls, found \in {<<>>, <<Job(Url1, TitleAnalyst, <<"a">>)>>} :
       FetchJobsFromProviders(c[2], c[3], c[1], DefaultMaxTotal, found)
  \/ \E c \in WindowCalls, found \in {<<>>, <<Job(Url1, TitleAnalyst, <<"a">>)>>} :
       FetchJobsFromProvidersCacheDown(c[2], c[3], c[1], DefaultMaxTotal, found)

(***************************************************************************)
(* Two threads calling mark_job_as_completed(job_id, user_approved=True)   *)
(* on one UltimateJobHunter.  The method takes no lock (self.process_lock  *)
(* is created in __init__ and used nowhere), so its statements interleave: *)
(* the add to self.processed_jobs, the read of processed_jobs.json, and    *)
(* the write of the whole list back.                                       *)
(***************************************************************************)
Threads == {"T1", "T2"}

\* the job ids the two threads mark: different jobs, no tracking variants
ConcurrentJobIds == {Url1, Url2}

ConcurrentInit ==
  /\ k_pc = [t \in Threads |-> "idle"]
  /\ k_job = [t \in Threads |-> <<>>]
  /\ k_existing = [t \in Threads |-> <<>>]
  /\ k_calls = 0
  /\ k_recorded = {}

\* self.processed_jobs.add(self.normalize_job_url(job_id))
MarkAdd(t, job_id) ==
  /\ l_started
  /\ k_pc[t] = "idle"
  /\ k_calls < MaxMarks
  /\ k_calls' = k_calls + 1
  /\ k_job' = [k_job EXCEPT ![t] = job_id]
  /\ l_processed_jobs' = l_processed_jobs \cup {NormalizeUrl(job_id)}
  /\ k_pc' = [k_pc EXCEPT ![t] = "added"]
  /\ UNCHANGED <<k_existing, k_recorded, l_started, l_today, l_file, l_outcome,
                 mvars, fvars, qvars, hvars, rvars, avars>>

\* existing_data = json.load(f); when the read raises the call returns False
MarkReadFile(t, io_fails) ==
  /\ k_pc[t] = "added"
  /\ k_existing' = [k_existing EXCEPT ![t] = IF io_fails THEN <<>> ELSE l_file]
  /\ k_pc' = [k_pc EXCEPT ![t] = IF io_fails THEN "idle" ELSE "read"]
  /\ UNCHANGED <<k_job, k_calls, k_recorded, mvars, fvars, lvars, qvars, hvars, rvars, avars>>

\* json.dump(existing_data, f) of the thread's own list, then return True;
\* when the write raises the call returns False
MarkWriteFile(t, io_fails) ==
  /\ k_pc[t] = "read"
  /\ l_file' = IF io_fails THEN l_file
               ELSE MarkedData(k_existing[t], k_job[t], l_today)
  /\ k_recorded' = IF io_fails THEN k_recorded ELSE k_recorded \cup {k_job[t]}
  /\ k_existing' = [k_existing EXCEPT ![t] = <<>>]
  /\ k_pc' = [k_pc EXCEPT ![t] = "idle"]
  /\ UNCHANGED <<k_job, k_calls, l_started, l_today, l_processed_jobs, l_outcome,
                 mvars, fvars, qvars, hvars, rvars, avars>>

\* the hunter is constructed on an empty processed_jobs.json, then two threads
\* mark jobs
ConcurrentMarkNext ==
  \/ ~l_started /\ LoadProcessedJobs(<<>>, FALSE)
  \/ \E t \in Threads, job_id \in ConcurrentJobIds : MarkAdd(t, job_id)
  \/ \E t \in Threads, io_fails \in BOOLEAN : MarkReadFile(t, io_fails)
  \/ \E t \in Threads, io_fails \in BOOLEAN : MarkWriteFile(t, io_fails)

(***************************************************************************)
(* Two threads in fetch_jobs_from_providers on one UltimateJobHunter, T1   *)
(* for profile P and T2 for profile Q.  The set the search manager filters *)
(* against is one field of the one manager, assigned at line 2037 and read *)
(* by the manager's fetch called at line 2051.                             *)
(***************************************************************************)
ProfileOf(t) == IF t = "T1" THEN "P" ELSE "Q"

ConcurrentFound == SeqsUpTo(FetchPool, 1)

NoArgs == [keywords |-> <<>>, location |-> <<>>, profile_name |-> ""]

ConcurrentFetchInit ==
  /\ q_pc = [t \in Threads |-> "idle"]
  /\ q_args = [t \in Threads |-> NoArgs]
  /\ q_found = [t \in Threads |-> <<>>]
  /\ q_all_jobs = [t \in Threads |-> <<>>]
  /\ q_calls = 0

\* the suppression test, then
\* self.job_search_manager.processed_jobs = profile_processed_jobs
FetchAssign(t, keywords, found) ==
  LET args == SuppressionArgs(keywords, NoneValue, ProfileOf(t))
      redundant == PreventRedundantSearch(c_last_search, args.keywords,
                     args.location, args.profile_name, TimeoutMilliHours, clock)
  IN  /\ q_pc[t] = "idle"
      /\ q_calls < MaxFetches
      /\ q_calls' = q_calls + 1
      /\ q_args' = [q_args EXCEPT ![t] = args]
      /\ q_all_jobs' = [q_all_jobs EXCEPT ![t] = <<>>]
      /\ IF redundant
           THEN UNCHANGED <<q_pc, q_found, jsm_processed_jobs>>
           ELSE /\ q_pc' = [q_pc EXCEPT ![t] = "assigned"]
                /\ q_found' = [q_found EXCEPT ![t] = found]
                /\ jsm_processed_jobs' = GetProcessedJobs(c_processed, ProfileOf(t))
      /\ UNCHANGED <<clock, c_processed, c_last_search, f_called, f_profile,
                     f_query, f_invoked, f_offered, f_printed, f_result,
                     f_cache_down, f_raised, h_returned, h_runs, h_outcomes,
                     mvars, lvars, kvars, hvars, rvars, avars>>

\* all_jobs = self.job_search_manager.fetch_jobs_from_providers(...): the
\* manager filters against its processed_jobs field
FetchManagerCall(t) ==
  /\ q_pc[t] = "assigned"
  /\ q_all_jobs' = [q_all_jobs EXCEPT ![t] =
                      ManagerFetch(q_found[t], jsm_processed_jobs, DefaultMaxTotal)]
  /\ q_pc' = [q_pc EXCEPT ![t] = "fetched"]
  /\ UNCHANGED <<q_args, q_found, q_calls, mvars, fvars, lvars, kvars, hvars, rvars, avars>>

\* the loop over all_jobs with add_processed_job(job, profile_name), then
\* update_last_search(profile_name) and return all_jobs
FetchRecord(t) ==
  /\ q_pc[t] = "fetched"
  /\ c_processed' = RecordReturned(c_processed, q_all_jobs[t], ProfileOf(t))
  /\ c_last_search' = RecordSearch(c_last_search, q_args[t], clock)
  /\ q_pc' = [q_pc EXCEPT ![t] = "idle"]
  /\ UNCHANGED <<q_args, q_found, q_all_jobs, q_calls, clock, jsm_processed_jobs,
                 f_called, f_profile, f_query, f_invoked, f_offered, f_printed,
                 f_result, f_cache_down, f_raised, h_returned, h_runs,
                 h_outcomes, mvars, lvars, kvars, hvars, rvars, avars>>

ConcurrentFetchNext ==
  \/ \E t \in Threads, keywords \in {KeywordsData, KeywordsOther},
        found \in ConcurrentFound : FetchAssign(t, keywords, found)
  \/ \E t \in Threads : FetchManagerCall(t)
  \/ \E t \in Threads : FetchRecord(t)

(***************************************************************************)
(* hunt_interactive: the fetch with its provider calls in flight, the      *)
(* cancellation test, the ranking, the job selection, the generation of    *)
(* the applications, the approval and the finalization.  The provider      *)
(* calls are made by JobSearchManager (job_search_manager), which is given *)
(* neither the hunter nor its cancel_event.                                *)
(***************************************************************************)
WorkflowProviders == {"adzuna", "jsearch"}

ProviderJob(provider) ==
  IF provider = "adzuna" THEN Job(Url1, TitleAnalyst, <<"a">>)
  ELSE Job(Url2, TitleAnalyst, <<"a">>)

\* the job_id of an entry of approved_jobs: a number, a string, or none
IntId(n) == [kind |-> "int", n |-> n, text |-> <<>>]
StrId(text) == [kind |-> "str", n |-> 0, text |-> text]
NoId == [kind |-> "none", n |-> 0, text |-> <<>>]

ApprovalEntries == {IntId(1), IntId(2), StrId(Url1), NoId}

ApprovalLists == SeqsUpTo(ApprovalEntries, MaxApproved)

NoEvent == [event |-> "none", status |-> "", approved_count |-> 0]

NoApproval == [type |-> "none", approved_applications |-> <<>>]

WorkflowInit ==
  /\ cancel_event = FALSE
  /\ w_pc = "idle"
  /\ w_pending = {}
  /\ w_collected = [p \in WorkflowProviders |-> <<>>]
  /\ w_all_jobs = <<>>
  /\ w_ranked = <<>>
  /\ w_applications = {}
  /\ w_approval = NoApproval
  /\ w_queue = <<>>
  /\ w_files = {}
  /\ w_completed = {}
  /\ w_finalized_count = 0
  /\ w_result = NoEvent

\* some thread sets self.cancel_event while hunt_interactive runs
SetCancel ==
  /\ w_pc \notin {"idle", "done"}
  /\ ~cancel_event
  /\ cancel_event' = TRUE
  /\ UNCHANGED <<w_pc, w_pending, w_collected, w_all_jobs, w_ranked,
                 w_applications, w_approval, w_queue, w_files, w_completed,
                 w_finalized_count, w_result, mvars, fvars, lvars, kvars, qvars, rvars, avars>>

\* hunt_interactive up to the manager's fetch: the suppression test, the
\* assignment of the manager's processed_jobs, the provider calls started
HuntStart(keywords) ==
  LET args == SuppressionArgs(keywords, NoneValue, "P")
      redundant == PreventRedundantSearch(c_last_search, args.keywords,
                     args.location, args.profile_name, TimeoutMilliHours, clock)
  IN  /\ l_started
      /\ w_pc = "idle"
      /\ IF redundant
           THEN /\ w_pc' = "fetched"
                /\ UNCHANGED <<w_pending, jsm_processed_jobs>>
           ELSE /\ w_pc' = "fetching"
                /\ w_pending' = WorkflowProviders
                /\ jsm_processed_jobs' = GetProcessedJobs(c_processed, "P")
      /\ UNCHANGED <<cancel_event, w_collected, w_all_jobs, w_ranked,
                     w_applications, w_approval, w_queue, w_files, w_completed,
                     w_finalized_count, w_result>>
      /\ UNCHANGED <<clock, c_processed, c_last_search, f_called, f_profile,
                     f_query, f_invoked, f_offered, f_printed, f_result,
                     f_cache_down, f_raised, h_returned, h_runs, h_outcomes,
                     mvars, lvars, kvars, qvars, rvars, avars>>

\* a provider call of the manager completes, with jobs, or with none when it
\* failed or timed out
ProviderCompletes(provider, found) ==
  /\ w_pc = "fetching"
  /\ provider \in w_pending
  /\ w_pending' = w_pending \ {provider}
  /\ w_collected' = [w_collected EXCEPT ![provider] = found]
  /\ UNCHANGED <<cancel_event, w_pc, w_all_jobs, w_ranked, w_applications,
                 w_approval, w_queue, w_files, w_completed, w_finalized_count,
                 w_result, mvars, fvars, lvars, kvars, qvars, rvars, avars>>

\* the manager's fetch returns when every provider call has completed; then
\* fetch_jobs_from_providers stamps and records the jobs and returns them
ManagerReturns ==
  LET found == w_collected["adzuna"] \o w_collected["jsearch"]
      all_jobs == ManagerFetch(found, jsm_processed_jobs, DefaultMaxTotal)
      stamped == StampFirstSeen(all_jobs, clock)
      args == SuppressionArgs(KeywordsData, NoneValue, "P")
  IN  /\ w_pc = "fetching"
      /\ w_pending = {}
      /\ \E since \in JobsSinceLastSearchChoices(c_processed, "P") :
           w_all_jobs' = StampIsNew(stamped, NewJobIds(since))
      /\ c_processed' = RecordReturned(c_processed, stamped, "P")
      /\ c_last_search' = RecordSearch(c_last_search, args, clock)
      /\ w_pc' = "fetched"
      /\ UNCHANGED <<cancel_event, w_pending, w_collected, w_ranked,
                     w_applications, w_approval, w_queue, w_files, w_completed,
                     w_finalized_count, w_result>>
      /\ UNCHANGED <<clock, jsm_processed_jobs, f_called, f_profile, f_query,
                     f_invoked, f_offered, f_printed, f_result, f_cache_down,
                     f_raised, h_returned, h_runs, h_outcomes,
                     mvars, lvars, kvars, qvars, rvars, avars>>

\* the ids of the ranked jobs (job['id']), which the ranker assigned
RankedIds(ranked_jobs) == [i \in DOMAIN ranked_jobs |-> i]

\* if self.check_cancellation(): return {...}; then rank_jobs, the early exit
\* on no ranked job, and the user_selection_required event
CheckCancellationAndRank ==
  /\ w_pc = "fetched"
  /\ IF cancel_event
       THEN /\ w_result' = [NoEvent EXCEPT !.event = "returned",
                                           !.status = "cancelled"]
            /\ w_pc' = "done"
            /\ UNCHANGED w_ranked
       ELSE LET ranked_jobs == RankJobsOfNone(w_all_jobs)
            IN  IF Len(ranked_jobs) = 0
                  THEN /\ w_result' = [NoEvent EXCEPT !.event = "final_results",
                                                      !.status = "no_jobs"]
                       /\ w_pc' = "done"
                       /\ UNCHANGED w_ranked
                  ELSE /\ w_ranked' = RankedIds(ranked_jobs)
                       /\ w_pc' = "selecting"
                       /\ UNCHANGED w_result
  /\ UNCHANGED <<cancel_event, w_pending, w_collected, w_all_jobs,
                 w_applications, w_approval, w_queue, w_files, w_completed,
                 w_finalized_count, mvars, fvars, lvars, kvars, qvars, rvars, avars>>

\* the files written at generation which wrote them whatever save_files is
FilesOfGenerationAlways(generated, save_files) == generated

\* _process_selected_jobs_impl: if save_files: save_application(...)
FilesOfGeneration(generated, save_files) ==
  IF save_files THEN generated ELSE {}

\* the jobs of ranked_jobs whose id is selected and whose generation did not
\* raise
Applications(selected_job_ids, ranked, generation_fails) ==
  {ranked[i] : i \in {k \in DOMAIN ranked :
                        ranked[k] \in selected_job_ids \ generation_fails}}

\* wait_for_job_selection, then process_selected_jobs(..., save_files=False)
\* and the user_approval_required event
SelectAndGenerate(reply, selected_job_ids, generation_fails) ==
  LET selected_jobs == IF reply = "job_selection" THEN selected_job_ids ELSE {}
      applications == Applications(selected_jobs, w_ranked, generation_fails)
  IN  /\ w_pc = "selecting"
      /\ IF selected_jobs = {}
           THEN /\ w_result' = [NoEvent EXCEPT !.event = "final_results",
                                               !.status = "cancelled"]
                /\ w_pc' = "done"
                /\ UNCHANGED <<w_applications, w_files>>
           ELSE /\ w_applications' = applications
                /\ w_files' = w_files \cup FilesOfGeneration(applications, FALSE)
                /\ w_pc' = "approving"
                /\ UNCHANGED w_result
      /\ UNCHANGED <<cancel_event, w_pending, w_collected, w_all_jobs, w_ranked,
                     w_approval, w_queue, w_completed, w_finalized_count,
                     mvars, fvars, lvars, kvars, qvars, rvars, avars>>

\* wait_for_application_approval: the approved entries of an approval
\* message, or none on a cancel message, a set cancel_event or the timeout
WaitForApplicationApproval(reply, approved_applications) ==
  LET approved_jobs == IF reply = "application_approval"
                         THEN approved_applications ELSE <<>>
  IN  /\ w_pc = "approving"
      /\ w_approval' = [type |-> reply, approved_applications |-> approved_jobs]
      /\ w_queue' = approved_jobs
      /\ w_pc' = "finalizing"
      /\ UNCHANGED <<cancel_event, w_pending, w_collected, w_all_jobs, w_ranked,
                     w_applications, w_files, w_completed, w_finalized_count,
                     w_result, mvars, fvars, lvars, kvars, qvars, rvars, avars>>

\* app_lookup.get(job_id): the keys are the int job ids of applications
AppLookup(applications, job_id) ==
  job_id.kind = "int" /\ job_id.n \in applications

\* what normalize_job_url is handed for a job_id
IdText(job_id) ==
  IF job_id.kind = "int" THEN <<ToString(job_id.n)>> ELSE job_id.text

\* one pass of the loop over approved_jobs: save_application when the entry
\* matches an application, then mark_job_as_completed(job_id, user_approved=True)
\* in every case.  A job_id that is no string makes mark_job_as_completed
\* return False at job_id.startswith, after the add to self.processed_jobs,
\* unless normalize_job_url has raised on it, which ends the workflow.
FinalizeEntry(save_raises, normalize_raises, io_fails) ==
  LET job_id == Head(w_queue)
      app_data == AppLookup(w_applications, job_id)
      saved == app_data /\ ~save_raises
      is_string == job_id.kind = "str"
      raises == ~is_string /\ normalize_raises
      marked == is_string /\ ~io_fails
  IN  /\ w_pc = "finalizing"
      /\ w_queue # <<>>
      /\ IF job_id.kind = "none"
           THEN /\ w_queue' = Tail(w_queue)
                /\ UNCHANGED <<w_pc, w_files, w_completed, w_finalized_count,
                               w_result, l_processed_jobs, l_file>>
           ELSE /\ w_files' = IF saved THEN w_files \cup {job_id.n} ELSE w_files
                /\ l_processed_jobs' =
                     IF raises THEN l_processed_jobs
                     ELSE l_processed_jobs \cup {NormalizeUrl(IdText(job_id))}
                /\ l_file' = IF marked THEN MarkedData(l_file, job_id.text, l_today)
                             ELSE l_file
                /\ w_completed' = IF marked THEN w_completed \cup {job_id}
                                  ELSE w_completed
                /\ w_finalized_count' = IF marked THEN w_finalized_count + 1
                                        ELSE w_finalized_count
                /\ w_queue' = IF raises THEN <<>> ELSE Tail(w_queue)
                /\ w_pc' = IF raises THEN "done" ELSE w_pc
                /\ w_result' = IF raises
                                 THEN [NoEvent EXCEPT !.event = "final_results",
                                                      !.status = "error"]
                                 ELSE w_result
      /\ UNCHANGED <<cancel_event, w_pending, w_collected, w_all_jobs, w_ranked,
                     w_applications, w_approval, l_started, l_today, l_outcome,
                     mvars, fvars, kvars, qvars, rvars, avars>>

\* after the loop: the final_results event with approved_count
FinalizeDone ==
  /\ w_pc = "finalizing"
  /\ w_queue = <<>>
  /\ w_result' = [event |-> "final_results", status |-> "success",
                  approved_count |-> w_finalized_count]
  /\ w_pc' = "done"
  /\ UNCHANGED <<cancel_event, w_pending, w_collected, w_all_jobs, w_ranked,
                 w_applications, w_approval, w_queue, w_files, w_completed,
                 w_finalized_count, mvars, fvars, lvars, kvars, qvars, rvars, avars>>

WorkflowNext ==
  \/ ~l_started /\ LoadProcessedJobs(<<>>, FALSE)
  \/ SetCancel
  \/ HuntStart(KeywordsData)
  \/ \E provider \in WorkflowProviders :
       \E found \in {<<>>, <<ProviderJob(provider)>>} :
         ProviderCompletes(provider, found)
  \/ ManagerReturns
  \/ CheckCancellationAndRank
  \/ \E reply \in {"job_selection", "cancel", "timeout"},
        selected_job_ids \in SUBSET (1..2), generation_fails \in SUBSET (1..2) :
       SelectAndGenerate(reply, selected_job_ids, generation_fails)
  \/ \E reply \in {"application_approval", "cancel", "timeout"},
        approved_applications \in ApprovalLists :
       WaitForApplicationApproval(reply, approved_applications)
  \/ \E save_raises \in BOOLEAN, normalize_raises \in BOOLEAN,
        io_fails \in BOOLEAN :
       FinalizeEntry(save_raises, normalize_raises, io_fails)
  \/ FinalizeDone

(***************************************************************************)
(* rank_jobs.  JobRanker (job_ranker) is modelled from the ranking model:  *)
(* a job's score is the weighted sum of its factors over the weight sum,   *)
(* the equal-weight average when all weights are zero; the order is by     *)
(* descending score, then by the more recent posting timestamp, then by    *)
(* the canonical identifier.  Within one ranking the divisor is the same   *)
(* for every job, so the scores are compared by their numerators.  The     *)
(* jobs of one call carry different identifiers, as the merge leaves them. *)
(***************************************************************************)
RankVariants ==
  { [relevance |-> 1, posted |-> 0],
    [relevance |-> 0, posted |-> 1],
    [relevance |-> 0, posted |-> 0] }

RankJob(identifier, v) ==
  [identifier |-> identifier, relevance |-> v.relevance, posted |-> v.posted]

RankPool == {RankJob(i, v) : i \in 1..MaxRank, v \in RankVariants}

\* the lists a first call is handed, by ascending identifier; RankAgain
\* hands over every other order of them
RankInputs ==
  {jobs \in SeqsUpTo(RankPool, MaxRank) :
     \A i, j \in DOMAIN jobs : i < j => jobs[i].identifier < jobs[j].identifier}

RankingWeights ==
  { [relevance |-> 1, recency |-> 1],
    [relevance |-> 1, recency |-> 0],
    [relevance |-> 0, recency |-> 0] }

\* the recency factor: the later the posting, the higher
Recency(job) == job.posted

Score(job, weights) ==
  IF weights.relevance + weights.recency > 0
    THEN weights.relevance * job.relevance + weights.recency * Recency(job)
    ELSE job.relevance + Recency(job)

RanksBefore(a, b, weights) ==
  \/ Score(a, weights) > Score(b, weights)
  \/ /\ Score(a, weights) = Score(b, weights)
     /\ \/ a.posted > b.posted
        \/ a.posted = b.posted /\ a.identifier < b.identifier

RECURSIVE InsertRanked(_, _, _)
InsertRanked(job, ranked, weights) ==
  IF ranked = <<>> THEN <<job>>
  ELSE IF RanksBefore(job, Head(ranked), weights)
         THEN <<job>> \o ranked
         ELSE <<Head(ranked)>> \o InsertRanked(job, Tail(ranked), weights)

\* JobRanker(weights=weights, profile=profile).rank_jobs(jobs)
RECURSIVE RankerRankJobs(_, _)
RankerRankJobs(jobs, weights) ==
  IF jobs = <<>> THEN <<>>
  ELSE InsertRanked(Head(jobs), RankerRankJobs(Tail(jobs), weights), weights)

\* the rank_jobs that hands the jobs back as they came
RankJobsUnranked(jobs, weights) == jobs

\* the rank_jobs that ranks the jobs of some relevance only
RankJobsRelevantOnly(jobs, weights) ==
  LET Relevant(job) == job.relevance > 0
  IN  RankerRankJobs(SelectSeq(jobs, Relevant), weights)

\* rank_jobs(jobs, profile, weights)
RankJobs(jobs, weights) ==
  IF jobs = <<>> THEN <<>> ELSE RankerRankJobs(jobs, weights)

RankInit ==
  /\ r_jobs = <<>>
  /\ r_weights = [relevance |-> 1, recency |-> 1]
  /\ r_ranked = <<>>
  /\ r_reordered = <<>>
  /\ r_reranked = <<>>
  /\ r_calls = 0

\* ranked_jobs = self.rank_jobs(jobs, weights=weights)
RankCall(jobs, weights) ==
  /\ r_calls = 0
  /\ r_jobs' = jobs
  /\ r_weights' = weights
  /\ r_ranked' = RankJobs(jobs, weights)
  /\ r_reordered' = jobs
  /\ r_reranked' = r_ranked'
  /\ r_calls' = 1
  /\ UNCHANGED <<mvars, fvars, lvars, kvars, qvars, hvars, avars>>

\* the same jobs ranked again with the same weights, handed over in another
\* order
RankAgain(order) ==
  /\ r_calls = 1
  /\ r_reordered' = [i \in DOMAIN r_jobs |-> r_jobs[order[i]]]
  /\ r_reranked' = RankJobs(r_reordered', r_weights)
  /\ r_calls' = 2
  /\ UNCHANGED <<r_jobs, r_weights, r_ranked,
                 mvars, fvars, lvars, kvars, qvars, hvars, avars>>

RankNext ==
  \/ \E jobs \in RankInputs, weights \in RankingWeights : RankCall(jobs, weights)
  \/ \E order \in Permutations(DOMAIN r_jobs) : RankAgain(order)

(***************************************************************************)
(* draft_api: the hand-off of the job selection and of the application     *)
(* approval.  A POST stores the message in a module global, a GET returns  *)
(* and clears it.  The handlers are plain functions, which the server runs *)
(* on worker threads, and they take no lock: the test of the global, the   *)
(* read of it and the clearing are three statements.  The n-th message     *)
(* POSTed to a channel is written n; 0 is None.                            *)
(***************************************************************************)
Channels == {"job-selection", "application-approval"}

NoLocal == [channel |-> "job-selection", data |-> 0]

HandoffInit ==
  /\ a_data = [ch \in Channels |-> 0]
  /\ a_pc = [t \in Threads |-> "idle"]
  /\ a_local = [t \in Threads |-> NoLocal]
  /\ a_posts = [ch \in Channels |-> 0]
  /\ a_returns = [ch \in Channels |-> [m \in 0..MaxPosts |-> 0]]

\* api_job_selection, api_application_approval: the global is assigned
ApiPost(ch) ==
  /\ a_posts[ch] < MaxPosts
  /\ a_posts' = [a_posts EXCEPT ![ch] = @ + 1]
  /\ a_data' = [a_data EXCEPT ![ch] = a_posts[ch] + 1]
  /\ UNCHANGED <<a_pc, a_local, a_returns,
                 mvars, fvars, lvars, kvars, qvars, hvars, rvars>>

\* if job_selection_data: ... else: raise HTTPException(status_code=404)
ApiGetTest(t, ch) ==
  /\ a_pc[t] = "idle"
  /\ a_local' = [a_local EXCEPT ![t] = [channel |-> ch, data |-> 0]]
  /\ a_pc' = [a_pc EXCEPT ![t] = IF a_data[ch] # 0 THEN "tested" ELSE "idle"]
  /\ UNCHANGED <<a_data, a_posts, a_returns,
                 mvars, fvars, lvars, kvars, qvars, hvars, rvars>>

\* data = job_selection_data
ApiGetRead(t) ==
  /\ a_pc[t] = "tested"
  /\ a_local' = [a_local EXCEPT ![t].data = a_data[a_local[t].channel]]
  /\ a_pc' = [a_pc EXCEPT ![t] = "read"]
  /\ UNCHANGED <<a_data, a_posts, a_returns,
                 mvars, fvars, lvars, kvars, qvars, hvars, rvars>>

\* job_selection_data = None; return data
ApiGetClearAndReturn(t) ==
  /\ a_pc[t] = "read"
  /\ a_data' = [a_data EXCEPT ![a_local[t].channel] = 0]
  /\ a_returns' = [a_returns EXCEPT ![a_local[t].channel][a_local[t].data] = @ + 1]
  /\ a_pc' = [a_pc EXCEPT ![t] = "idle"]
  /\ UNCHANGED <<a_local, a_posts,
                 mvars, fvars, lvars, kvars, qvars, hvars, rvars>>

HandoffNext ==
  \/ \E ch \in Channels : ApiPost(ch)
  \/ \E t \in Threads, ch \in Channels : ApiGetTest(t, ch)
  \/ \E t \in Threads : ApiGetRead(t)
  \/ \E t \in Threads : ApiGetClearAndReturn(t)

Init ==
  /\ MappedInit /\ FetchInit /\ LegacyInit
  /\ ConcurrentInit /\ ConcurrentFetchInit /\ WorkflowInit
  /\ RankInit /\ HandoffInit

SpecMapped == Init /\ [][MappedNext]_vars

SpecFetch == Init /\ [][FetchNext]_vars

SpecSuppress == Init /\ [][SuppressNext]_vars

SpecLegacy == Init /\ [][LegacyNext]_vars

SpecLegacyReliable == Init /\ [][LegacyReliableNext]_vars

SpecCacheDown == Init /\ [][CacheDownNext]_vars

SpecConcurrentMark == Init /\ [][ConcurrentMarkNext]_vars

SpecConcurrentFetch == Init /\ [][ConcurrentFetchNext]_vars

SpecWorkflow == Init /\ [][WorkflowNext]_vars

SpecRank == Init /\ [][RankNext]_vars

SpecHandoff == Init /\ [][HandoffNext]_vars

(***************************************************************************)
(* Properties.                                                             *)
(***************************************************************************)
IsFetchStep == f_called' /\ clock' = clock

PriorSearchWithin(profile_name, keywords, location) ==
  \E r \in DOMAIN h_runs[profile_name] :
    /\ NormalizeText(r[1]) = NormalizeText(keywords)
    /\ NormalizeText(OrEmpty(r[2])) = NormalizeText(OrEmpty(location))
    /\ clock - h_runs[profile_name][r] < TimeoutMilliHours

\* C2: a second call with the same profile, keywords and location within the
\* window invokes no provider and returns an empty result with a
\* 'suppressed' report; after the window the call searches.
C2_SecondCallSuppressedWithReport ==
  [][IsFetchStep =>
       IF PriorSearchWithin(f_profile', f_query'[1], f_query'[2])
         THEN /\ ~f_invoked'
              /\ f_result' = <<>>
              /\ HuntOutcome(f_result').status = "suppressed"
         ELSE f_invoked']_vars

C4_SuppressedOutcomeDistinguishable ==
  h_outcomes.suppressed \cap h_outcomes.empty = {}

MappedDone == m_pc = "done" /\ m_result.success

\* C5: the merge pass keeps a job iff no earlier job of the pass has its
\* canonical identifier and the identifier is not in the cache; of the jobs
\* sharing an identifier it keeps the first.
C5_MergeKeepsFirstPerIdentifier ==
  MappedDone => m_unique = MergeLoop(m_all_jobs, jsm_processed_jobs, <<>>)

\* two jobs with URLs, equal once the tracking query is taken off
SameUrlUpToTracking(a, b) ==
  /\ IsUrl(a.url)
  /\ IsUrl(b.url)
  /\ SelectSeq(a.url, NotTracking) = SelectSeq(b.url, NotTracking)

\* C6: jobs of two providers whose URLs differ only by tracking query
\* parameters get the same identifier, and exactly one job with that
\* identifier is returned, whatever their titles and companies.
C6_TrackingVariantsAreOneJob ==
  MappedDone =>
    \A i, j \in DOMAIN m_all_jobs :
      (/\ m_all_jobs[i].provider # m_all_jobs[j].provider
       /\ SameUrlUpToTracking(m_all_jobs[i], m_all_jobs[j]))
      => /\ JobUrlKey(m_all_jobs[i]) = JobUrlKey(m_all_jobs[j])
         /\ Cardinality({k \in DOMAIN m_unique :
                           SameUrlUpToTracking(m_unique[k], m_all_jobs[i])}) = 1

\* a text with case and whitespace folded away
FoldCaseAndSpace(s) == Strip(CollapseSpaces(ToLower(s)))

\* two jobs without URL whose titles and companies differ in case and
\* whitespace at most
SameTextUpToCaseAndSpace(a, b) ==
  /\ a.url = <<>>
  /\ b.url = <<>>
  /\ FoldCaseAndSpace(a.title) = FoldCaseAndSpace(b.title)
  /\ FoldCaseAndSpace(a.company) = FoldCaseAndSpace(b.company)

\* C7: jobs without URL whose title and company differ only in letter case
\* and in leading, trailing or repeated inner whitespace get the same dedup
\* key, and the merge pass keeps only one of them.
C7_CaseAndSpaceVariantsShareKey ==
  MappedDone =>
    \A i, j \in DOMAIN m_all_jobs :
      SameTextUpToCaseAndSpace(m_all_jobs[i], m_all_jobs[j])
      => /\ TitleCompanyKey(m_all_jobs[i]) = TitleCompanyKey(m_all_jobs[j])
         /\ Cardinality({k \in DOMAIN m_unique :
                           SameTextUpToCaseAndSpace(m_unique[k], m_all_jobs[i])}) = 1

\* C8: when the search of a provider raised, the fetch returns the
\* deduplicated jobs of the other providers and the report marks that
\* provider as failed.
C8_FailedProviderReported ==
  MappedDone =>
    /\ \A k \in DOMAIN m_result.jobs : m_result.jobs[k].provider \notin m_failed
    /\ \A p \in m_failed :
         /\ ~m_result.mapping_results[p].success
         /\ "error" \in DOMAIN m_result.mapping_results[p]

\* C9: while the call of a provider is in flight, the call of every later
\* provider can start.
C9_LaterProviderCanStart ==
  \A i \in DOMAIN m_providers :
    (m_pc = "calling" /\ i > m_idx /\ m_providers[i] \in KnownProviders)
    => ENABLED ProviderStartAt(i)

CeilDiv(a, b) == (a + b - 1) \div b

\* C10: the limit passed to a provider is the ceiling of max_total divided by
\* the number of providers.
C10_LimitIsCeiling ==
  m_pc = "calling" => m_limit = CeilDiv(m_max_total, Len(m_providers))

C12_IsNewIffNotInSnapshot ==
  [][(IsFetchStep /\ f_invoked') =>
       \A i \in DOMAIN f_result' :
         f_result'[i].is_new_since_last_search
           <=> ComputeIdentifier(f_result'[i]) \notin c_processed[f_profile']]_vars

IsLegacyStep(op) == l_outcome'.op = op /\ l_today' = l_today

\* the age in days of a dated entry
AgeInDays(item) == l_today - item.date_added.day

HasUsableDate(item) == item.kind = "dict" /\ item.date_added.tag = "iso"

\* C14: pruning with N days removes only entries strictly older than N days:
\* a dated entry whose age is N days or less is still stored afterwards.
C14_PruneKeepsBoundaryAndYounger ==
  [][(IsLegacyStep("clean") /\ ~l_outcome'.io_failed) =>
       \A i \in DOMAIN l_file :
         (HasUsableDate(l_file[i]) /\ AgeInDays(l_file[i]) <= l_outcome'.max_age_days)
         => \E j \in DOMAIN l_file' : l_file'[j] = l_file[i]]_vars

\* C15: pruning removes no entry without a usable date; such an entry that
\* was reported as processed is still reported as processed afterwards, and
\* the returned count is the number of entries removed.
C15_PruneKeepsUndatedEntries ==
  [][(IsLegacyStep("clean") /\ ~l_outcome'.io_failed) =>
       /\ \A i \in DOMAIN l_file :
            ~HasUsableDate(l_file[i]) =>
              /\ \E j \in DOMAIN l_file' : l_file'[j] = l_file[i]
              /\ NormalizeUrl(l_file[i].url) \in l_processed_jobs
                   => NormalizeUrl(l_file[i].url) \in l_processed_jobs'
       /\ l_outcome'.returned = Len(l_file) - Len(l_file')]_vars

\* the identifier of job_id is in self.processed_jobs and in the stored list
AlreadyRecorded(job_id) ==
  /\ NormalizeUrl(job_id) \in l_processed_jobs
  /\ \E i \in DOMAIN l_file : NormalizeUrl(l_file[i].url) = NormalizeUrl(job_id)

\* C16: marking an identifier that is already recorded succeeds and leaves
\* the identifier set and every stored entry, with its date, as they were.
C16_MarkAgainChangesNothing ==
  [][(IsLegacyStep("mark") /\ l_outcome'.returned = 1
        /\ AlreadyRecorded(l_outcome'.job_id)) =>
       /\ l_file' = l_file
       /\ l_processed_jobs' = l_processed_jobs]_vars

\* C17: a reset is the reset of one profile: afterwards nothing is processed
\* for that profile, and what is processed for every other profile is as it
\* was.
C17_ResetTouchesOneProfile ==
  [][(IsLegacyStep("reset") /\ l_outcome'.returned = 1) =>
       \E p \in Profiles :
         /\ \A id \in l_processed_jobs : ~IsProcessed(p, id)'
         /\ \A q \in Profiles \ {p} : \A id \in l_processed_jobs :
              IsProcessed(q, id)' <=> IsProcessed(q, id)]_vars

\* C18: a failure to read or write the stored cache is reported to the
\* caller as an error.
C18_CacheFailureReported ==
  l_outcome.io_failed => l_outcome.reported_error

\* what the caller of the latest fetch gets to see
CallerSees == IF f_raised THEN HuntOutcomeRaised ELSE HuntOutcome(f_result)

\* C19: a fetch made while the cache store is unavailable does not fail: it
\* asks the providers and returns their jobs, with a warning for the caller.
C19_CacheDownStillReturnsJobs ==
  (f_called /\ f_cache_down) =>
    /\ ~f_raised
    /\ f_invoked
    /\ "warning" \in DOMAIN CallerSees

\* C20: a fetch whose profile fails validation ends at once with a failure
\* result and an empty job list: no provider is invoked and no cache state
\* changes during the call.
C20_InvalidProfileRejectedFirst ==
  [][(m_pc' # "idle" /\ ~m_valid') =>
       /\ m_pc' = "done"
       /\ ~m_result'.success
       /\ m_result'.jobs = <<>>
       /\ m_mapping' = <<>>
       /\ m_all_jobs' = <<>>
       /\ m_limit' = 0
       /\ UNCHANGED <<c_processed, c_last_search, jsm_processed_jobs,
                      l_file, l_processed_jobs>>]_vars

\* a fetch over a list of providers, with a budget, was rejected because its
\* profile is not valid
C20_Witness ==
  /\ m_pc = "done"
  /\ ~m_valid
  /\ m_providers # <<>>
  /\ m_max_total > 0

\* the job ids stored in processed_jobs.json, in order
StoredIds(data) == [i \in DOMAIN data |-> data[i].job_id]

NoMarkInFlight == \A t \in Threads : k_pc[t] = "idle"

\* C21: whatever the interleaving of two concurrent mark_job_as_completed
\* calls, once both have returned no identifier a call recorded is lost and
\* none is stored twice: processed_jobs.json holds exactly the identifiers
\* of the calls that returned True, each once.
C21_ConcurrentMarksKeepUnion ==
  NoMarkInFlight =>
    /\ {StoredIds(l_file)[i] : i \in DOMAIN l_file} = k_recorded
    /\ \A i, j \in DOMAIN l_file :
         StoredIds(l_file)[i] = StoredIds(l_file)[j] => i = j

\* C22: whatever the interleaving of a fetch for P with a fetch for Q on one
\* hunter, the manager's fetch of a thread filters against the processed
\* identifiers of that thread's profile only, and the identifiers the thread
\* records go to its own profile's record and to no other.
C22_FetchesKeepToTheirProfile ==
  [][\A t \in Threads :
       /\ (q_pc[t] = "assigned" /\ q_pc'[t] = "fetched") =>
            q_all_jobs'[t] =
              ManagerFetch(q_found[t], GetProcessedJobs(c_processed, ProfileOf(t)),
                           DefaultMaxTotal)
       /\ (q_pc[t] = "fetched" /\ q_pc'[t] = "idle") =>
            /\ IdsOf(q_all_jobs[t]) \subseteq c_processed'[ProfileOf(t)]
            /\ \A p \in Profiles \ {ProfileOf(t)} :
                 c_processed'[p] = c_processed[p]]_vars

\* C23: when self.cancel_event is set while provider calls of the fetch are
\* in flight, the fetch does not wait for them: it can return at once, with
\* the jobs of the calls that have completed.
C23_CancelledFetchDoesNotWait ==
  (w_pc = "fetching" /\ cancel_event /\ w_pending # {}) => ENABLED ManagerReturns

CountOf(jobs, job) == Cardinality({i \in DOMAIN jobs : jobs[i] = job})

ListedInApproval(n) ==
  /\ w_approval.type = "application_approval"
  /\ \E i \in DOMAIN w_approval.approved_applications :
       w_approval.approved_applications[i] = IntId(n)

\* C26: in hunt_interactive the application files of a job are written only
\* after an approval message that lists the job's id has been received: no
\* file is written at generation, none for a generated job that is not
\* approved, and none when the wait for the approval ended on a cancel or on
\* the timeout.
C26_FilesOnlyAfterApproval ==
  \A n \in w_files : ListedInApproval(n)

\* the workflow has ended with the files of an approved job written while
\* another generated job, not approved, has none
C26_Witness ==
  /\ w_pc = "done"
  /\ w_files # {}
  /\ \E n \in w_applications : n \notin w_files /\ ~ListedInApproval(n)

\* C30: in the finalization of hunt_interactive a job is marked completed,
\* and counted in approved_count, only if its application was generated in
\* this run and save_application succeeded for it.
C30_CompletedOnlyIfSaved ==
  /\ \A job_id \in w_completed :
       AppLookup(w_applications, job_id) /\ job_id.n \in w_files
  /\ w_finalized_count <= Cardinality(w_files)

\* C27: mark_job_as_completed with user_approved=False returns False and
\* leaves self.processed_jobs and processed_jobs.json as they were; the
\* stored list gains an entry only in a call with user_approved=True, and the
\* in-memory set gains an identifier only there or from the stored list.
C27_UnapprovedMarkChangesNothing ==
  [][/\ (IsLegacyStep("mark") /\ ~l_outcome'.user_approved) =>
          /\ l_outcome'.returned = 0
          /\ l_file' = l_file
          /\ l_processed_jobs' = l_processed_jobs
     /\ (l_started /\ Len(l_file') > Len(l_file)) =>
          l_outcome'.op = "mark" /\ l_outcome'.user_approved
     /\ \A id \in l_processed_jobs' \ l_processed_jobs :
          \/ l_outcome'.op = "mark" /\ l_outcome'.user_approved
          \/ id \in LoadedSet(l_file')]_vars

\* a call with user_approved=False has returned, for a job that is not
\* recorded, on a hunter whose list and set are not empty
C27_Witness ==
  /\ l_outcome.op = "mark"
  /\ ~l_outcome.user_approved
  /\ l_outcome.returned = 0
  /\ l_file # <<>>
  /\ l_processed_jobs # {}
  /\ NormalizeUrl(l_outcome.job_id) \notin l_processed_jobs
  /\ ~JobExists(l_file, l_outcome.job_id)

NoGetInFlight(ch) ==
  \A t \in Threads : a_pc[t] = "idle" \/ a_local[t].channel # ch

\* C28: the hand-off of the job selection and of the application approval
\* is for one use: whatever the interleaving, two concurrent GETs included,
\* a POSTed message is returned by at most one GET, and once a GET has
\* returned it the store no longer holds it, so that further GETs report 404
\* until the next POST.
C28_MessageReturnedAtMostOnce ==
  \A ch \in Channels, m \in 1..MaxPosts :
    /\ a_returns[ch][m] <= 1
    /\ (a_returns[ch][m] >= 1 /\ NoGetInFlight(ch)) => a_data[ch] # m

\* the normalized identifiers of the entries of the stored list
StoredIdentifiers(data) == {NormalizeUrl(data[i].job_id) : i \in DOMAIN data}

\* C29: after every sequence of load_processed_jobs, mark_job_as_completed,
\* clean_expired_jobs and reset_job_cache, self.processed_jobs is the set of
\* the normalized identifiers of the entries of processed_jobs.json; so a job
\* marked completed, by a URL or by another id, is in the set after a reload,
\* and a prune drops from memory no entry it kept in the file.
C29_MemoryMatchesFile ==
  l_started => l_processed_jobs = StoredIdentifiers(l_file)

====
